---------------------------- MODULE Spec2Model ----------------------------
(***************************************************************************)
(* The SecretB64Code contract of pruntime                                  *)
(* (pruntime/enclave/src/contracts/secretb64code.rs).                      *)
(*                                                                         *)
(* The contract keeps one String per account (b64code).  The command       *)
(* SetB64Code stores the payload under the origin; the query DecodeB64Code *)
(* base64-decodes the origin's entry, checks that the bytes are UTF-8 and  *)
(* answers with them, or answers Error(NotAuthorized).                     *)
(*                                                                         *)
(* A Rust String is its UTF-8 bytes, so a String is modelled as a sequence *)
(* of bytes (0..255) both for the stored payload and for the decoded note. *)
(* An Option<T> is a record [tag |-> "None"] or [tag |-> "Some", val].     *)
(***************************************************************************)
EXTENDS Integers, Sequences, FiniteSets, TLC

(***************************************************************************)
(* Bounds of the model.                                                    *)
(***************************************************************************)
\* number of chain accounts that send commands and queries
NumAccounts == 2
\* number of distinct transaction references
NumTxRefs == 2

Accounts == 1..NumAccounts
TxRefs == 1..NumTxRefs

None == [tag |-> "None"]
Some(x) == [tag |-> "Some", val |-> x]

(***************************************************************************)
(* The payload strings the model submits, written as their bytes.          *)
(***************************************************************************)
\* ""                                  base64 of no bytes
StrEmpty == << >>
\* "aGVsbG8="                          base64 of "hello"
StrHello == <<97, 71, 86, 115, 98, 71, 56, 61>>
\* "w6k="                              base64 of C3 A9, the UTF-8 of U+00E9
StrEAcute == <<119, 54, 107, 61>>
\* "/w=="                              base64 of the byte FF, which is not UTF-8
StrFF == <<47, 119, 61, 61>>
\* "aGk!"                              '!' is not a base64 symbol
StrBang == <<97, 71, 107, 33>>

Payloads == {StrEmpty, StrHello, StrEAcute, StrFF, StrBang}

(***************************************************************************)
(* Values returned by the handlers.                                        *)
(***************************************************************************)
TransactionStatusOk == [kind |-> "TransactionStatus", variant |-> "Ok"]
ResponseDecodeB64Code(decnote) ==
    [kind |-> "Response", variant |-> "DecodeB64Code", decnote |-> decnote]
ErrorNotAuthorized == "NotAuthorized"
ResponseError(error) == [kind |-> "Response", variant |-> "Error", error |-> error]
\* a panic leaves the handler without a return value
Panicked(msg) == [kind |-> "Panic", msg |-> msg]
NoReturn == [kind |-> "None"]


(***************************************************************************)
(* base64::decode with the standard alphabet ('+', '/', '=' padding), as   *)
(* called at line 95.  The input is read four symbols at a time; every     *)
(* four symbols give three bytes, a final group of two or three symbols    *)
(* followed by padding gives one or two bytes.  A byte outside the         *)
(* alphabet, padding anywhere but at the end, a length that is not a whole *)
(* number of groups and non-zero bits left over in the last symbol are     *)
(* errors.  (Releases of the crate differ on input whose padding is left   *)
(* out; such input is not among Payloads.)                                 *)
(***************************************************************************)
PadByte == 61

\* the 6-bit value of a symbol of the standard alphabet, -1 for other bytes
B64Value(c) ==
    IF c \in 65..90 THEN c - 65
    ELSE IF c \in 97..122 THEN c - 71
    ELSE IF c \in 48..57 THEN c + 4
    ELSE IF c = 43 THEN 62
    ELSE IF c = 47 THEN 63
    ELSE -1

\* number of padding bytes at the end of s
RECURSIVE TrailingPad(_)
TrailingPad(s) ==
    IF Len(s) > 0 /\ s[Len(s)] = PadByte
    THEN 1 + TrailingPad(SubSeq(s, 1, Len(s) - 1))
    ELSE 0

\* Mutant of DecodeChunks: the final group of two or three symbols is dropped.
RECURSIVE DecodeChunksWholeGroups(_)
DecodeChunksWholeGroups(v) ==
    IF Len(v) < 4 THEN << >>
    ELSE << v[1] * 4 + (v[2] \div 16),
            (v[2] % 16) * 16 + (v[3] \div 4),
            (v[3] % 4) * 64 + v[4] >>
         \o DecodeChunksWholeGroups(SubSeq(v, 5, Len(v)))

\* the bytes of a sequence v of 6-bit values: 4 values -> 3 bytes,
\* 3 values -> 2 bytes, 2 values -> 1 byte
RECURSIVE DecodeChunks(_)
DecodeChunks(v) ==
    IF Len(v) < 2 THEN << >>
    ELSE IF Len(v) = 2 THEN
        << v[1] * 4 + (v[2] \div 16) >>
    ELSE IF Len(v) = 3 THEN
        << v[1] * 4 + (v[2] \div 16), (v[2] % 16) * 16 + (v[3] \div 4) >>
    ELSE
        << v[1] * 4 + (v[2] \div 16),
           (v[2] % 16) * 16 + (v[3] \div 4),
           (v[3] % 4) * 64 + v[4] >>
        \o DecodeChunks(SubSeq(v, 5, Len(v)))

\* Result<Vec<u8>, DecodeError>
Base64Decode(s) ==
    LET npad == TrailingPad(s)
        body == SubSeq(s, 1, Len(s) - npad)
        vals == [i \in 1..Len(body) |-> B64Value(body[i])]
        rem  == Len(body) % 4
        last == vals[Len(body)]
    IN  IF \E i \in 1..Len(body) : vals[i] = -1
            THEN [ok |-> FALSE, err |-> "InvalidByte", bytes |-> << >>]
        ELSE IF npad > 2 \/ Len(s) % 4 # 0 \/ rem = 1
            THEN [ok |-> FALSE, err |-> "InvalidLength", bytes |-> << >>]
        ELSE IF (rem = 2 /\ last % 16 # 0) \/ (rem = 3 /\ last % 4 # 0)
            THEN [ok |-> FALSE, err |-> "InvalidLastSymbol", bytes |-> << >>]
        ELSE [ok |-> TRUE, err |-> "", bytes |-> DecodeChunks(vals)]

(***************************************************************************)
(* std::str::from_utf8 (line 97): Ok exactly when the bytes are well-formed*)
(* UTF-8 (no overlong forms, no surrogates, nothing above U+10FFFF); the   *)
(* str it returns is the same bytes.                                       *)
(***************************************************************************)
\* the length of the well-formed sequence starting at b[i], 0 if there is none
Utf8SeqLen(b, i) ==
    LET n  == Len(b)
        b0 == b[i]
        c(k, lo, hi) == i + k <= n /\ b[i + k] \in lo..hi
    IN  IF b0 < 128 THEN 1
        ELSE IF b0 \in 194..223 THEN (IF c(1, 128, 191) THEN 2 ELSE 0)
        ELSE IF b0 = 224 THEN (IF c(1, 160, 191) /\ c(2, 128, 191) THEN 3 ELSE 0)
        ELSE IF b0 \in 225..236 \/ b0 \in 238..239
            THEN (IF c(1, 128, 191) /\ c(2, 128, 191) THEN 3 ELSE 0)
        ELSE IF b0 = 237 THEN (IF c(1, 128, 159) /\ c(2, 128, 191) THEN 3 ELSE 0)
        ELSE IF b0 = 240
            THEN (IF c(1, 144, 191) /\ c(2, 128, 191) /\ c(3, 128, 191) THEN 4 ELSE 0)
        ELSE IF b0 \in 241..243
            THEN (IF c(1, 128, 191) /\ c(2, 128, 191) /\ c(3, 128, 191) THEN 4 ELSE 0)
        ELSE IF b0 = 244
            THEN (IF c(1, 128, 143) /\ c(2, 128, 191) /\ c(3, 128, 191) THEN 4 ELSE 0)
        ELSE 0

RECURSIVE Utf8ValidFrom(_, _)
Utf8ValidFrom(b, i) ==
    IF i > Len(b) THEN TRUE
    ELSE LET w == Utf8SeqLen(b, i)
         IN  w # 0 /\ Utf8ValidFrom(b, i + w)

\* Result<&str, Utf8Error>
FromUtf8(b) ==
    IF Utf8ValidFrom(b, 1) THEN [ok |-> TRUE, str |-> b]
    ELSE [ok |-> FALSE, str |-> << >>]

(***************************************************************************)
(* The contract.  self.b64code is a BTreeMap<AccountIdWrapper, String>: a  *)
(* function whose domain is the set of accounts that have an entry.        *)
(***************************************************************************)
\* Default::default(): the empty map
New == << >>

CommandSetB64Code(b64code) == [variant |-> "SetB64Code", b64code |-> b64code]
RequestDecodeB64Code == [variant |-> "DecodeB64Code"]

\* BTreeMap::insert: the map with key k bound to v, any earlier value replaced
Insert(m, k, v) == [x \in (DOMAIN m) \cup {k} |-> IF x = k THEN v ELSE m[x]]

\* BTreeMap::remove: the map without key k
Remove(m, k) == [x \in (DOMAIN m) \ {k} |-> m[x]]

TransactionStatusBadInput == [kind |-> "TransactionStatus", variant |-> "BadInput"]
TransactionStatusBadCommand == [kind |-> "TransactionStatus", variant |-> "BadCommand"]

\* Mutant of HandleCommand: the first note of an account is kept
\* (entry(..).or_insert(..) in place of insert).
HandleCommandKeepFirst(self, origin, txref, cmd) ==
    [self |-> IF origin \in DOMAIN self THEN self
              ELSE Insert(self, origin, cmd.b64code),
     ret  |-> TransactionStatusOk]

\* Mutant of HandleCommand: replacing an entry is reported as a bad command.
HandleCommandRejectRepeat(self, origin, txref, cmd) ==
    [self |-> Insert(self, origin, cmd.b64code),
     ret  |-> IF origin \in DOMAIN self THEN TransactionStatusBadCommand
              ELSE TransactionStatusOk]

\* Mutant of HandleCommand: the payload is validated when it is set.
HandleCommandValidating(self, origin, txref, cmd) ==
    IF Base64Decode(cmd.b64code).ok
    THEN [self |-> Insert(self, origin, cmd.b64code), ret |-> TransactionStatusOk]
    ELSE [self |-> self, ret |-> TransactionStatusBadInput]

\* Mutant of HandleCommand: setting the empty string clears the entry.
HandleCommandEmptyDeletes(self, origin, txref, cmd) ==
    [self |-> IF cmd.b64code = << >> THEN Remove(self, origin)
              ELSE Insert(self, origin, cmd.b64code),
     ret  |-> TransactionStatusOk]

\* Mutant of HandleCommand: only the latest note of all is kept (the map is
\* cleared before the insert).
HandleCommandSingleNote(self, origin, txref, cmd) ==
    [self |-> [x \in {origin} |-> cmd.b64code],
     ret  |-> TransactionStatusOk]

\* Mutant of HandleCommand: only the first transaction reference is accepted.
HandleCommandFirstTxOnly(self, origin, txref, cmd) ==
    IF txref = 1
    THEN [self |-> Insert(self, origin, cmd.b64code), ret |-> TransactionStatusOk]
    ELSE [self |-> self, ret |-> TransactionStatusBadCommand]

\* handle_command(&mut self, _origin, _txref, cmd): the contract after the
\* call and the TransactionStatus returned
HandleCommand(self, origin, txref, cmd) ==
    LET current_user == origin
    IN  [self |-> Insert(self, current_user, cmd.b64code),
         ret  |-> TransactionStatusOk]

\* Lines 93-102: what the query evaluates to for a stored string: the decoded
\* note, or the panic of unwrap() or of the from_utf8 match
DecodeNote(b64code) ==
    LET decmsg    == Base64Decode(b64code)
        decmsgstr == FromUtf8(decmsg.bytes)
    IN  IF ~decmsg.ok THEN Panicked("unwrap on Err: " \o decmsg.err)
        ELSE IF ~decmsgstr.ok THEN Panicked("Invalid UTF-8 sequence")
        ELSE ResponseDecodeB64Code(decmsgstr.str)

\* Mutant of HandleQuery: an origin without an entry is answered from the
\* first entry of the map.
HandleQueryFirstEntry(self, origin, req) ==
    IF origin.tag = "Some" /\ origin.val \in DOMAIN self
    THEN [self |-> self, ret |-> DecodeNote(self[origin.val])]
    ELSE IF origin.tag = "Some" /\ DOMAIN self # {}
    THEN LET first == CHOOSE k \in DOMAIN self : \A j \in DOMAIN self : k <= j
         IN  [self |-> self, ret |-> DecodeNote(self[first])]
    ELSE [self |-> self, ret |-> ResponseError(ErrorNotAuthorized)]

\* Mutant of HandleQuery: a missing origin is taken to be the default account.
HandleQueryDefaultOrigin(self, origin, req) ==
    LET account == IF origin.tag = "Some" THEN origin.val ELSE 1
    IN  IF account \in DOMAIN self
        THEN [self |-> self, ret |-> DecodeNote(self[account])]
        ELSE [self |-> self, ret |-> ResponseError(ErrorNotAuthorized)]

\* Mutant of HandleQuery: an origin without an entry gets an error of its own.
HandleQueryNotFound(self, origin, req) ==
    IF origin.tag = "Some" /\ origin.val \in DOMAIN self
    THEN [self |-> self, ret |-> DecodeNote(self[origin.val])]
    ELSE IF origin.tag = "Some"
    THEN [self |-> self, ret |-> ResponseError("NotFound")]
    ELSE [self |-> self, ret |-> ResponseError(ErrorNotAuthorized)]

\* Mutant of HandleQuery: the entry is taken out of the map when it is read.
HandleQueryTake(self, origin, req) ==
    IF origin.tag = "Some" /\ origin.val \in DOMAIN self
    THEN [self |-> Remove(self, origin.val), ret |-> DecodeNote(self[origin.val])]
    ELSE [self |-> self, ret |-> ResponseError(ErrorNotAuthorized)]

\* Mutant of HandleQuery: a string that does not decode is answered with the
\* typed error.
HandleQueryTypedError(self, origin, req) ==
    IF origin.tag = "Some" /\ origin.val \in DOMAIN self
    THEN LET r == DecodeNote(self[origin.val])
         IN  [self |-> self,
              ret  |-> IF r.kind = "Panic" THEN ResponseError(ErrorNotAuthorized)
                       ELSE r]
    ELSE [self |-> self, ret |-> ResponseError(ErrorNotAuthorized)]

\* Mutant of HandleQuery: an origin without an entry is given an empty one
\* (entry(..).or_default() in place of contains_key and get).
HandleQueryOrDefault(self, origin, req) ==
    IF origin.tag = "Some"
    THEN LET m == IF origin.val \in DOMAIN self THEN self
                  ELSE Insert(self, origin.val, << >>)
         IN  [self |-> m, ret |-> DecodeNote(m[origin.val])]
    ELSE [self |-> self, ret |-> ResponseError(ErrorNotAuthorized)]

\* Mutant of HandleQuery: a string that does not decode is answered with a
\* typed error of its own.
HandleQueryDecodeFailed(self, origin, req) ==
    IF origin.tag = "Some" /\ origin.val \in DOMAIN self
    THEN LET r == DecodeNote(self[origin.val])
         IN  [self |-> self,
              ret  |-> IF r.kind = "Panic" THEN ResponseError("DecodeFailed")
                       ELSE r]
    ELSE [self |-> self, ret |-> ResponseError(ErrorNotAuthorized)]

\* Mutant of HandleQuery: an empty entry counts as no entry.
HandleQueryEmptyIsAbsent(self, origin, req) ==
    IF origin.tag = "Some" /\ origin.val \in DOMAIN self
       /\ self[origin.val] # << >>
    THEN [self |-> self, ret |-> DecodeNote(self[origin.val])]
    ELSE [self |-> self, ret |-> ResponseError(ErrorNotAuthorized)]

\* Mutant of HandleQuery: every entry of the map is decoded before the
\* origin's note is picked.
HandleQueryDecodeAll(self, origin, req) ==
    IF origin.tag = "Some" /\ origin.val \in DOMAIN self
    THEN IF \E k \in DOMAIN self : DecodeNote(self[k]).kind = "Panic"
         THEN LET bad == CHOOSE k \in DOMAIN self :
                            /\ DecodeNote(self[k]).kind = "Panic"
                            /\ \A j \in DOMAIN self :
                                  DecodeNote(self[j]).kind = "Panic" => k <= j
              IN  [self |-> self, ret |-> DecodeNote(self[bad])]
         ELSE [self |-> self, ret |-> DecodeNote(self[origin.val])]
    ELSE [self |-> self, ret |-> ResponseError(ErrorNotAuthorized)]

\* handle_query(&mut self, _origin, req): the contract after the call and the
\* Response returned, or the panic that ends the call
HandleQuery(self, origin, req) ==
    IF origin.tag = "Some" /\ origin.val \in DOMAIN self
    THEN [self |-> self, ret |-> DecodeNote(self[origin.val])]
    ELSE [self |-> self, ret |-> ResponseError(ErrorNotAuthorized)]

(***************************************************************************)
(* State.                                                                  *)
(*   b64code     the contract's map                                        *)
(*   ret         what the last handler call returned                       *)
(*   replica     the map of a second instance that applies the same        *)
(*               commands and answers the same queries; retReplica is what *)
(*               its handler returned                                      *)
(*   lastOp      the last handler call: its kind, origin and payload       *)
(*   lastSet     per account, the payload of its most recent SetB64Code    *)
(*   alive       the process is still serving calls.  What a panic does to *)
(*               the process is decided by the build (unwinding that the   *)
(*               caller catches, or abort), so after a panic either the    *)
(*               contract goes on, its state as it was, or no call is      *)
(*               served any more.                                          *)
(* History kept by Spec:                                                   *)
(*   old         the entry the origin had before the last command          *)
(*   again       the last call is a command and the call before it was the *)
(*               same command from the same origin                         *)
(*   answered    the accounts whose query was ever answered with something *)
(*               other than NotAuthorized                                  *)
(* History kept by SpecRepair:                                             *)
(*   panicked    the accounts whose query ever panicked                    *)
(* Calls in progress, kept by SpecInterleaved:                             *)
(*   cmdCall     the handle_command call that has been entered and has not *)
(*               returned: its origin, transaction reference and payload   *)
(*   qryCall     the origin of the handle_query call that has been entered *)
(*               and has not returned                                      *)
(* A second run of the host, kept by SpecTwoRuns:                          *)
(*   diffAcct    the account whose commands differ between the two runs    *)
(*               (None when there is one run only)                         *)
(*   other       the contract's map in the second run; respOther is what   *)
(*               the query was answered there, when the last call was a    *)
(*               query                                                     *)
(***************************************************************************)
VARIABLES b64code, ret, replica, retReplica, lastOp, lastSet, alive,
          old, again, answered, panicked,
          cmdCall, qryCall,
          diffAcct, other, respOther

vars == <<b64code, ret, replica, retReplica, lastOp, lastSet, alive,
          old, again, answered, panicked, cmdCall, qryCall,
          diffAcct, other, respOther>>

callVars == <<cmdCall, qryCall>>

histVars == <<old, again, answered, panicked>>
otherVars == <<diffAcct, other, respOther>>

Lookup(m, k) == IF k \in DOMAIN m THEN Some(m[k]) ELSE None

Origins == {None} \cup {Some(a) : a \in Accounts}

InitContract ==
    /\ b64code = New
    /\ replica = New
    /\ ret = NoReturn
    /\ retReplica = NoReturn
    /\ lastOp = [kind |-> "none", origin |-> None, payload |-> << >>]
    /\ lastSet = << >>
    /\ alive = TRUE
    /\ old = None
    /\ again = FALSE
    /\ answered = {}
    /\ panicked = {}
    /\ cmdCall = None
    /\ qryCall = None
    /\ other = New
    /\ respOther = NoReturn

\* The host calls handle_command with the command SetB64Code{b64code: payload}
\* of the finalized transaction txref sent by origin; every replica applies it.
CallHandleCommand(origin, txref, payload) ==
    LET cmd == CommandSetB64Code(payload)
        r   == HandleCommand(b64code, origin, txref, cmd)
        rr  == HandleCommand(replica, origin, txref, cmd)
    IN  /\ alive
        /\ b64code' = r.self
        /\ ret' = r.ret
        /\ replica' = rr.self
        /\ retReplica' = rr.ret
        /\ lastOp' = [kind |-> "command", origin |-> Some(origin),
                      payload |-> payload]
        /\ lastSet' = Insert(lastSet, origin, payload)
        /\ UNCHANGED <<alive, callVars>>

\* The host calls handle_query with the request DecodeB64Code and an optional
\* origin.
CallHandleQuery(origin) ==
    LET r  == HandleQuery(b64code, origin, RequestDecodeB64Code)
        rr == HandleQuery(replica, origin, RequestDecodeB64Code)
    IN  /\ alive
        /\ b64code' = r.self
        /\ ret' = r.ret
        /\ replica' = rr.self
        /\ retReplica' = rr.ret
        /\ lastOp' = [kind |-> "query", origin |-> origin, payload |-> << >>]
        /\ alive' \in (IF r.ret.kind = "Panic" THEN BOOLEAN ELSE {TRUE})
        /\ UNCHANGED <<lastSet, callVars>>

(***************************************************************************)
(* Spec: one run of the contract, with its history.                        *)
(***************************************************************************)
Init ==
    /\ InitContract
    /\ diffAcct = None

SetB64Code(origin, txref, payload) ==
    /\ CallHandleCommand(origin, txref, payload)
    /\ old' = Lookup(b64code, origin)
    /\ again' = /\ lastOp.kind = "command"
                /\ lastOp.origin = Some(origin)
                /\ lastOp.payload = payload
    /\ UNCHANGED <<answered, panicked>>
    /\ UNCHANGED otherVars

DecodeB64Code(origin) ==
    /\ CallHandleQuery(origin)
    /\ old' = None
    /\ again' = FALSE
    /\ answered' = IF origin.tag = "Some"
                      /\ ret' # ResponseError(ErrorNotAuthorized)
                   THEN answered \cup {origin.val}
                   ELSE answered
    /\ UNCHANGED panicked
    /\ UNCHANGED otherVars

Next ==
    \/ \E origin \in Accounts, txref \in TxRefs, payload \in Payloads :
          SetB64Code(origin, txref, payload)
    \/ \E origin \in Origins : DecodeB64Code(origin)

Spec == Init /\ [][Next]_vars

(***************************************************************************)
(* SpecRepair: one run of the contract, with the history of its panics.    *)
(***************************************************************************)
RepairSetB64Code(origin, txref, payload) ==
    /\ CallHandleCommand(origin, txref, payload)
    /\ UNCHANGED <<histVars, otherVars>>

RepairDecodeB64Code(origin) ==
    /\ CallHandleQuery(origin)
    /\ panicked' = IF origin.tag = "Some" /\ ret'.kind = "Panic"
                   THEN panicked \cup {origin.val}
                   ELSE panicked
    /\ UNCHANGED <<old, again, answered, otherVars>>

NextRepair ==
    \/ \E origin \in Accounts, txref \in TxRefs, payload \in Payloads :
          RepairSetB64Code(origin, txref, payload)
    \/ \E origin \in Origins : RepairDecodeB64Code(origin)

SpecRepair == Init /\ [][NextRepair]_vars

(***************************************************************************)
(* SpecInterleaved: the host has a command thread and a query thread, and  *)
(* a handler call takes time.  handle_command and handle_query both take   *)
(* &mut self, so a call is entered only while no other call is in          *)
(* progress.  Between the entry and the return of handle_command the       *)
(* insert is under way and the origin's entry is partly written: it holds  *)
(* some proper prefix of the new string.                                   *)
(***************************************************************************)
\* Mutant of ExclusiveAccess: handle_query borrows the contract shared, so
\* only a query in progress keeps a call from being entered.
AccessSharedWithCommand(c, q) == q = None

\* &mut self: no command call c and no query call q is in progress
ExclusiveAccess(c, q) == c = None /\ q = None

\* the strings an entry can hold while payload is being written to it
PartlyWritten(payload) == {SubSeq(payload, 1, k) : k \in 0..(Len(payload) - 1)}

EnterHandleCommand(origin, txref, payload) ==
    /\ alive
    /\ ExclusiveAccess(cmdCall, qryCall)
    /\ cmdCall' = Some([origin |-> origin, txref |-> txref, payload |-> payload])
    /\ IF PartlyWritten(payload) = {}
          THEN UNCHANGED b64code
          ELSE \E partial \in PartlyWritten(payload) :
                  b64code' = Insert(b64code, origin, partial)
    /\ UNCHANGED <<ret, replica, retReplica, lastOp, lastSet, alive, qryCall,
                   histVars, otherVars>>

ReturnHandleCommand ==
    /\ cmdCall # None
    /\ LET c == cmdCall.val
           r == HandleCommand(b64code, c.origin, c.txref,
                              CommandSetB64Code(c.payload))
       IN  /\ b64code' = r.self
           /\ ret' = r.ret
           /\ lastOp' = [kind |-> "command", origin |-> Some(c.origin),
                         payload |-> c.payload]
           /\ lastSet' = Insert(lastSet, c.origin, c.payload)
    /\ cmdCall' = None
    /\ UNCHANGED <<replica, retReplica, alive, qryCall, histVars, otherVars>>

EnterHandleQuery(origin) ==
    /\ alive
    /\ ExclusiveAccess(cmdCall, qryCall)
    /\ qryCall' = Some(origin)
    /\ UNCHANGED <<b64code, ret, replica, retReplica, lastOp, lastSet, alive,
                   cmdCall, histVars, otherVars>>

ReturnHandleQuery ==
    /\ qryCall # None
    /\ LET r == HandleQuery(b64code, qryCall.val, RequestDecodeB64Code)
       IN  /\ b64code' = r.self
           /\ ret' = r.ret
           /\ lastOp' = [kind |-> "query", origin |-> qryCall.val,
                         payload |-> << >>]
           /\ alive' \in (IF r.ret.kind = "Panic" THEN BOOLEAN ELSE {TRUE})
    /\ qryCall' = None
    /\ UNCHANGED <<replica, retReplica, lastSet, cmdCall, histVars, otherVars>>

NextInterleaved ==
    \/ \E origin \in Accounts, txref \in TxRefs, payload \in Payloads :
          EnterHandleCommand(origin, txref, payload)
    \/ ReturnHandleCommand
    \/ \E origin \in Origins : EnterHandleQuery(origin)
    \/ ReturnHandleQuery

SpecInterleaved == Init /\ [][NextInterleaved]_vars

(***************************************************************************)
(* SpecTwoRuns: two runs of the host side by side.  Every account but      *)
(* diffAcct sends the same commands in both; the commands of diffAcct are  *)
(* sent in one run or the other, independently.  Queries are put to both.  *)
(***************************************************************************)
InitTwoRuns ==
    /\ InitContract
    /\ diffAcct \in {Some(a) : a \in Accounts}

\* a command of an account other than diffAcct: applied in both runs
BothSetB64Code(origin, txref, payload) ==
    LET ro == HandleCommand(other, origin, txref, CommandSetB64Code(payload))
    IN  /\ Some(origin) # diffAcct
        /\ CallHandleCommand(origin, txref, payload)
        /\ other' = ro.self
        /\ respOther' = NoReturn
        /\ UNCHANGED <<diffAcct, histVars>>

\* a command of diffAcct that only this run sees
ThisRunSetB64Code(txref, payload) ==
    /\ CallHandleCommand(diffAcct.val, txref, payload)
    /\ respOther' = NoReturn
    /\ UNCHANGED <<diffAcct, other, histVars>>

\* a command of diffAcct that only the other run sees
OtherRunSetB64Code(txref, payload) ==
    LET ro == HandleCommand(other, diffAcct.val, txref, CommandSetB64Code(payload))
    IN  /\ alive
        /\ other' = ro.self
        /\ UNCHANGED respOther
        /\ UNCHANGED <<b64code, ret, replica, retReplica, lastOp, lastSet,
                       alive, callVars, diffAcct, histVars>>

\* the same query in both runs
BothDecodeB64Code(origin) ==
    LET ro == HandleQuery(other, origin, RequestDecodeB64Code)
    IN  /\ CallHandleQuery(origin)
        /\ other' = ro.self
        /\ respOther' = ro.ret
        /\ UNCHANGED <<diffAcct, histVars>>

NextTwoRuns ==
    \/ \E origin \in Accounts, txref \in TxRefs, payload \in Payloads :
          BothSetB64Code(origin, txref, payload)
    \/ \E txref \in TxRefs, payload \in Payloads :
          ThisRunSetB64Code(txref, payload)
    \/ \E txref \in TxRefs, payload \in Payloads :
          OtherRunSetB64Code(txref, payload)
    \/ \E origin \in Origins : BothDecodeB64Code(origin)

SpecTwoRuns == InitTwoRuns /\ [][NextTwoRuns]_vars

(***************************************************************************)
(* Reference definitions for the properties: base64 encoding (RFC 4648,    *)
(* with padding) and the known decodings of the well-formed payloads.      *)
(***************************************************************************)
B64Symbol(v) ==
    IF v < 26 THEN v + 65
    ELSE IF v < 52 THEN v + 71
    ELSE IF v < 62 THEN v - 4
    ELSE IF v = 62 THEN 43
    ELSE 47

RECURSIVE Base64Encode(_)
Base64Encode(b) ==
    IF Len(b) = 0 THEN << >>
    ELSE IF Len(b) = 1 THEN
        << B64Symbol(b[1] \div 4), B64Symbol((b[1] % 4) * 16), PadByte, PadByte >>
    ELSE IF Len(b) = 2 THEN
        << B64Symbol(b[1] \div 4),
           B64Symbol((b[1] % 4) * 16 + (b[2] \div 16)),
           B64Symbol((b[2] % 16) * 4), PadByte >>
    ELSE
        << B64Symbol(b[1] \div 4),
           B64Symbol((b[1] % 4) * 16 + (b[2] \div 16)),
           B64Symbol((b[2] % 16) * 4 + (b[3] \div 64)),
           B64Symbol(b[3] % 64) >>
        \o Base64Encode(SubSeq(b, 4, Len(b)))

\* "hello"
TextHello == <<104, 101, 108, 108, 111>>
\* U+00E9 in UTF-8
TextEAcute == <<195, 169>>

\* the payloads that are valid base64 of valid text, with the text
WellFormed == {StrEmpty, StrHello, StrEAcute}
TextOf(s) ==
    IF s = StrHello THEN TextHello
    ELSE IF s = StrEAcute THEN TextEAcute
    ELSE << >>
\* the payloads that are not
Malformed == {StrFF, StrBang}

NotAuthorized == ResponseError(ErrorNotAuthorized)
IsQueryAs(a) == lastOp.kind = "query" /\ lastOp.origin = Some(a)
IsCommandOf(a) == lastOp.kind = "command" /\ lastOp.origin = Some(a)

(***************************************************************************)
(* C1  Round trip.  Whenever the most recent SetB64Code of account A       *)
(* carried a payload S that is base64 of valid text, a DecodeB64Code query *)
(* as A is answered DecodeB64Code{decnote} with decnote the text of S:     *)
(* encoding decnote gives S back.  This holds in every state reached       *)
(* after the command, whatever other calls came in between.                *)
(***************************************************************************)
C1_RoundTrip ==
    \A a \in DOMAIN lastSet :
        lastSet[a] \in WellFormed =>
            LET r == HandleQuery(b64code, Some(a), RequestDecodeB64Code).ret
            IN  /\ r = ResponseDecodeB64Code(TextOf(lastSet[a]))
                /\ Base64Encode(r.decnote) = lastSet[a]
                /\ IsQueryAs(a) => ret = r

\* Alice set "aGVsbG8=", the other accounts set something too, and Alice's
\* query was answered "hello".
C1_Witness ==
    /\ IsQueryAs(1)
    /\ DOMAIN lastSet = Accounts
    /\ lastSet[1] = StrHello
    /\ ret = ResponseDecodeB64Code(TextHello)

(***************************************************************************)
(* C2  Isolation.  In two runs that differ only in the SetB64Code commands *)
(* of account diffAcct, a DecodeB64Code query as any other account B is    *)
(* answered the same in both runs; and a query as an account that has      *)
(* itself sent no SetB64Code is answered NotAuthorized, whatever the other *)
(* accounts have stored.  Checked under SpecTwoRuns.                       *)
(***************************************************************************)
C2_Isolation ==
    \A b \in Accounts :
        /\ (Some(b) # diffAcct) =>
               /\ HandleQuery(b64code, Some(b), RequestDecodeB64Code).ret
                    = HandleQuery(other, Some(b), RequestDecodeB64Code).ret
               /\ IsQueryAs(b) => ret = respOther
        /\ (b \notin DOMAIN lastSet) =>
               /\ HandleQuery(b64code, Some(b), RequestDecodeB64Code).ret
                    = NotAuthorized
               /\ IsQueryAs(b) => ret = NotAuthorized

\* Account diffAcct stored "aGVsbG8=" in this run and something else in the
\* other; B, who stored nothing, queried and got NotAuthorized in both.
C2_Witness ==
    /\ diffAcct # None
    /\ diffAcct.val \in DOMAIN b64code
    /\ b64code[diffAcct.val] = StrHello
    /\ diffAcct.val \in DOMAIN other
    /\ other[diffAcct.val] # StrHello
    /\ \E b \in Accounts \ {diffAcct.val} :
          /\ IsQueryAs(b)
          /\ b \notin DOMAIN lastSet
          /\ ret = NotAuthorized
          /\ respOther = NotAuthorized

(***************************************************************************)
(* C3  No-origin query.  In every reachable state a DecodeB64Code query    *)
(* without an origin is answered Error(NotAuthorized): never a decoded     *)
(* note and never a panic, also when the map holds malformed entries.      *)
(***************************************************************************)
C3_NoOriginNotAuthorized ==
    /\ HandleQuery(b64code, None, RequestDecodeB64Code).ret = NotAuthorized
    /\ (lastOp.kind = "query" /\ lastOp.origin = None) => ret = NotAuthorized

\* Every account has an entry, one of them malformed, and a query without an
\* origin was answered NotAuthorized.
C3_Witness ==
    /\ lastOp.kind = "query"
    /\ lastOp.origin = None
    /\ DOMAIN b64code = Accounts
    /\ b64code[1] \in Malformed
    /\ ret = NotAuthorized

(***************************************************************************)
(* C4  Indistinguishability.  In every reachable state, a query as an      *)
(* account without an entry and a query without an origin get the same     *)
(* response value, Error(NotAuthorized).                                   *)
(***************************************************************************)
C4_Indistinguishable ==
    /\ \A a \in Accounts \ DOMAIN b64code :
          HandleQuery(b64code, Some(a), RequestDecodeB64Code).ret
            = HandleQuery(b64code, None, RequestDecodeB64Code).ret
    /\ (/\ lastOp.kind = "query"
        /\ \/ lastOp.origin = None
           \/ lastOp.origin.val \notin DOMAIN b64code)
       => ret = NotAuthorized

\* Another account holds an entry, and a query as an account without one was
\* answered NotAuthorized.
C4_Witness ==
    \E a \in Accounts :
        /\ IsQueryAs(a)
        /\ a \notin DOMAIN b64code
        /\ DOMAIN b64code # {}
        /\ ret = NotAuthorized

(***************************************************************************)
(* C5  Overwrite.  After SetB64Code(S1) and then SetB64Code(S2) from       *)
(* account A, the entry of A is S2; and in every reachable state the map   *)
(* is exactly the most recent payload of each account, so every query, as  *)
(* any origin, is answered as a contract that only ever saw those most     *)
(* recent payloads would answer it: nothing of S1 is kept.                 *)
(***************************************************************************)
C5_Overwrite ==
    /\ \A a \in Accounts :
          (IsCommandOf(a) /\ old # None) =>
              /\ a \in DOMAIN b64code
              /\ b64code[a] = lastOp.payload
    /\ DOMAIN b64code = DOMAIN lastSet
    /\ \A a \in DOMAIN b64code : b64code[a] = lastSet[a]
    /\ \A o \in Origins :
          /\ HandleQuery(b64code, o, RequestDecodeB64Code).ret
               = HandleQuery(lastSet, o, RequestDecodeB64Code).ret
          /\ (lastOp.kind = "query" /\ lastOp.origin = o) =>
                 ret = HandleQuery(lastSet, o, RequestDecodeB64Code).ret

\* Account 1 held "aGVsbG8=" and has just replaced it by "w6k=".
C5_Witness ==
    /\ IsCommandOf(1)
    /\ old = Some(StrHello)
    /\ lastOp.payload = StrEAcute
    /\ 1 \in DOMAIN b64code
    /\ b64code[1] = StrEAcute

(***************************************************************************)
(* C6  Idempotence.  When SetB64Code(S) from account A is applied right    *)
(* after the same command from A, the second application leaves the map    *)
(* as the first left it and returns the same status.                       *)
(***************************************************************************)
C6_Idempotent ==
    [][ ( /\ lastOp.kind = "command"
          /\ lastOp'.kind = "command"
          /\ lastOp'.origin = lastOp.origin
          /\ lastOp'.payload = lastOp.payload )
        => ( b64code' = b64code /\ ret' = ret ) ]_vars

\* The same command was applied twice in succession, by the only account
\* that has an entry.
C6_Witness ==
    /\ again
    /\ lastOp.kind = "command"
    /\ old = Some(lastOp.payload)
    /\ Cardinality(DOMAIN b64code) = 1

(***************************************************************************)
(* C7  SetB64Code cannot fail.  For every reachable state, origin,         *)
(* transaction reference and payload (the empty string and strings that    *)
(* are not base64 included), handle_command returns Ok and the map then    *)
(* holds the payload, verbatim, under the origin.                          *)
(***************************************************************************)
C7_SetCannotFail ==
    /\ \A origin \in Accounts, txref \in TxRefs, payload \in Payloads :
          LET r == HandleCommand(b64code, origin, txref, CommandSetB64Code(payload))
          IN  /\ r.ret = TransactionStatusOk
              /\ origin \in DOMAIN r.self
              /\ r.self[origin] = payload
    /\ lastOp.kind = "command" =>
          /\ ret = TransactionStatusOk
          /\ lastOp.origin.val \in DOMAIN b64code
          /\ b64code[lastOp.origin.val] = lastOp.payload

\* A string that is not base64 was set and is stored as it was sent.
C7_Witness ==
    /\ IsCommandOf(1)
    /\ lastOp.payload = StrBang
    /\ 1 \in DOMAIN b64code
    /\ b64code[1] = StrBang
    /\ ret = TransactionStatusOk

(***************************************************************************)
(* C8  Queries never mutate state.  Every handle_query call, whatever its  *)
(* origin and whatever its outcome (decoded note, NotAuthorized, panic),   *)
(* leaves the map as it was.                                               *)
(***************************************************************************)
C8_QueryKeepsState ==
    [][ lastOp'.kind = "query" => b64code' = b64code ]_vars

\* A query that decoded a note was answered and the entry is still there.
C8_Witness ==
    /\ IsQueryAs(1)
    /\ ret = ResponseDecodeB64Code(TextHello)
    /\ 1 \in DOMAIN b64code
    /\ b64code[1] = StrHello

(***************************************************************************)
(* C9  A malformed entry is fatal, deterministically.  When the entry of   *)
(* account A is not base64, or is base64 of bytes that are not UTF-8, a    *)
(* query as A panics: it returns no decoded note and no typed error.  The  *)
(* panic is a function of the entry alone, so repeating the query gives    *)
(* the same panic, and a replica that applied the same commands panics     *)
(* the same way.                                                           *)
(***************************************************************************)
FatalOutcome(s) ==
    IF s = StrFF THEN Panicked("Invalid UTF-8 sequence")
    ELSE Panicked("unwrap on Err: InvalidByte")

C9_MalformedIsFatal ==
    \A a \in DOMAIN b64code :
        b64code[a] \in Malformed =>
            /\ HandleQuery(b64code, Some(a), RequestDecodeB64Code).ret
                 = FatalOutcome(b64code[a])
            /\ HandleQuery(replica, Some(a), RequestDecodeB64Code).ret
                 = FatalOutcome(b64code[a])
            /\ IsQueryAs(a) =>
                  /\ ret = FatalOutcome(b64code[a])
                  /\ ret.kind = "Panic"
                  /\ retReplica = ret

\* Account 1 holds "/w==" (the byte FF), queried, and the call panicked on
\* both replicas.
C9_Witness ==
    /\ IsQueryAs(1)
    /\ 1 \in DOMAIN b64code
    /\ b64code[1] = StrFF
    /\ ret = Panicked("Invalid UTF-8 sequence")
    /\ retReplica = ret

(***************************************************************************)
(* C10  Entries are never deleted.  No step removes an account from the    *)
(* map; and once a query as A was answered with something other than      *)
(* NotAuthorized, no later query as A is answered NotAuthorized.           *)
(***************************************************************************)
C10_NeverDeleted ==
    [][ /\ DOMAIN b64code \subseteq DOMAIN b64code'
        /\ \A a \in answered :
              (lastOp'.kind = "query" /\ lastOp'.origin = Some(a))
                  => ret' # NotAuthorized ]_vars

\* Account 1 was answered before, then set the empty string, and its later
\* query was answered again.
C10_Witness ==
    /\ 1 \in answered
    /\ IsQueryAs(1)
    /\ 1 \in DOMAIN b64code
    /\ b64code[1] = StrEmpty
    /\ ret = ResponseDecodeB64Code(<< >>)
    /\ answered = Accounts

(***************************************************************************)
(* C11  Empty at instantiation, written only by commands.  As long as no   *)
(* command has been applied the map is empty and every query, with any     *)
(* origin or none, is answered NotAuthorized; and in every reachable state *)
(* the accounts with an entry are exactly those that have sent a           *)
(* SetB64Code, each entry being the payload of the account's most recent   *)
(* one.                                                                    *)
(***************************************************************************)
C11_WrittenOnlyByCommands ==
    /\ DOMAIN lastSet = {} =>
          /\ b64code = New
          /\ \A o \in Origins :
                HandleQuery(b64code, o, RequestDecodeB64Code).ret = NotAuthorized
          /\ lastOp.kind = "query" => ret = NotAuthorized
    /\ \A a \in Accounts :
          /\ a \in DOMAIN b64code <=> a \in DOMAIN lastSet
          /\ a \in DOMAIN b64code => b64code[a] = lastSet[a]

\* No command has been applied yet; account 1 queried, was answered
\* NotAuthorized, and the map is still empty.
C11_Witness ==
    /\ DOMAIN lastSet = {}
    /\ IsQueryAs(1)
    /\ ret = NotAuthorized
    /\ DOMAIN b64code = {}

(***************************************************************************)
(* C12  SetB64Code touches only the origin's entry.  A handle_command call *)
(* leaves the entry of every account other than the origin as it was       *)
(* (present or absent, and its value), and the key it writes is the origin *)
(* the host passed.                                                        *)
(***************************************************************************)
C12_OnlyOriginEntry ==
    [][ lastOp'.kind = "command" =>
          /\ \A b \in Accounts \ {lastOp'.origin.val} :
                Lookup(b64code', b) = Lookup(b64code, b)
          /\ Lookup(b64code', lastOp'.origin.val) = Some(lastOp'.payload) ]_vars

\* Account 1 replaced its entry while account 2 held "aGVsbG8=", which is
\* still there.
C12_Witness ==
    /\ IsCommandOf(1)
    /\ old # None
    /\ lastOp.payload = StrBang
    /\ 2 \in DOMAIN b64code
    /\ b64code[2] = StrHello
    /\ lastSet[2] = StrHello

(***************************************************************************)
(* C13  NotAuthorized only for a missing origin or a missing entry.  A     *)
(* query as an account that has an entry is never answered NotAuthorized:  *)
(* it is answered with the decoded note or it panics.  The only typed      *)
(* error a query returns is NotAuthorized, and it returns it only when the *)
(* origin is missing or has no entry.                                      *)
(***************************************************************************)
C13_NotAuthorizedOnlyWhenAbsent ==
    /\ \A a \in DOMAIN b64code :
          LET r == HandleQuery(b64code, Some(a), RequestDecodeB64Code).ret
          IN  /\ r # NotAuthorized
              /\ \/ r.kind = "Panic"
                 \/ r.kind = "Response" /\ r.variant = "DecodeB64Code"
              /\ IsQueryAs(a) => ret = r
    /\ \A o \in Origins :
          LET r == HandleQuery(b64code, o, RequestDecodeB64Code).ret
          IN  (r.kind = "Response" /\ r.variant = "Error") =>
                  /\ r.error = ErrorNotAuthorized
                  /\ o = None \/ o.val \notin DOMAIN b64code
    /\ (lastOp.kind = "query" /\ ret.kind = "Response" /\ ret.variant = "Error") =>
          /\ ret.error = ErrorNotAuthorized
          /\ lastOp.origin = None \/ lastOp.origin.val \notin DOMAIN b64code

\* Account 1 holds "aGk!", which is not base64; its query panicked, it was
\* not answered NotAuthorized.
C13_Witness ==
    /\ IsQueryAs(1)
    /\ 1 \in DOMAIN b64code
    /\ b64code[1] = StrBang
    /\ ret = Panicked("unwrap on Err: InvalidByte")

(***************************************************************************)
(* C14  The transaction reference is not interpreted.  In every reachable  *)
(* state, for every origin and payload, handle_command gives the same new  *)
(* map and the same status whatever the transaction reference; and         *)
(* applying the last command once more, with any transaction reference,    *)
(* gives the map and the status the call gave.                             *)
(***************************************************************************)
C14_TxRefNotInterpreted ==
    /\ \A origin \in Accounts, payload \in Payloads, t1 \in TxRefs, t2 \in TxRefs :
          HandleCommand(b64code, origin, t1, CommandSetB64Code(payload))
            = HandleCommand(b64code, origin, t2, CommandSetB64Code(payload))
    /\ lastOp.kind = "command" =>
          \A t \in TxRefs :
              HandleCommand(b64code, lastOp.origin.val, t,
                            CommandSetB64Code(lastOp.payload))
                = [self |-> b64code, ret |-> ret]

\* There is more than one transaction reference, every account has an
\* entry, and account 2 has just replaced its entry by a different string.
C14_Witness ==
    /\ Cardinality(TxRefs) > 1
    /\ IsCommandOf(2)
    /\ DOMAIN b64code = Accounts
    /\ old # None
    /\ old # Some(lastOp.payload)

C16_EmptyEntryIsAuthorized ==
    \A a \in DOMAIN lastSet :
        lastSet[a] = StrEmpty =>
            LET r == HandleQuery(b64code, Some(a), RequestDecodeB64Code).ret
            IN  /\ r # NotAuthorized
                /\ r = ResponseDecodeB64Code(<< >>)
                /\ IsQueryAs(a) => ret = r

\* Only account 1 has set anything, the empty string, and its query was
\* answered with the empty note.
C16_Witness ==
    /\ IsQueryAs(1)
    /\ DOMAIN lastSet = {1}
    /\ lastSet[1] = StrEmpty
    /\ ret = ResponseDecodeB64Code(<< >>)

(***************************************************************************)
(* C17  A malformed entry is contained and repairable.  While account A    *)
(* holds a malformed entry, a query as any other account B is answered as  *)
(* if A had no entry (the text of B's own payload, or NotAuthorized when B *)
(* has none) and a query without an origin is answered NotAuthorized; and  *)
(* an account whose query has panicked and that has since set a            *)
(* well-formed payload is answered with the text of that payload.          *)
(* Checked under SpecRepair.  (When a panic ends the process no later call *)
(* is made; the property is about the calls that are made.)                *)
(***************************************************************************)
C17_ContainedAndRepairable ==
    /\ \A a \in DOMAIN b64code :
          b64code[a] \in Malformed =>
              /\ \A b \in Accounts \ {a} :
                    LET r == HandleQuery(b64code, Some(b), RequestDecodeB64Code).ret
                    IN  /\ r = HandleQuery(Remove(b64code, a), Some(b),
                                           RequestDecodeB64Code).ret
                        /\ (b \in DOMAIN lastSet /\ lastSet[b] \in WellFormed) =>
                               r = ResponseDecodeB64Code(TextOf(lastSet[b]))
                        /\ b \notin DOMAIN lastSet => r = NotAuthorized
                        /\ IsQueryAs(b) => ret = r
              /\ HandleQuery(b64code, None, RequestDecodeB64Code).ret = NotAuthorized
              /\ (lastOp.kind = "query" /\ lastOp.origin = None) =>
                     ret = NotAuthorized
    /\ \A a \in panicked :
          (a \in DOMAIN lastSet /\ lastSet[a] \in WellFormed) =>
              /\ HandleQuery(b64code, Some(a), RequestDecodeB64Code).ret
                   = ResponseDecodeB64Code(TextOf(lastSet[a]))
              /\ IsQueryAs(a) => ret = ResponseDecodeB64Code(TextOf(lastSet[a]))

\* The queries of accounts 1 and 2 have both panicked; account 1 has since
\* set "aGVsbG8=" and its query is answered "hello", while account 2 still
\* holds a malformed entry.
C17_Witness ==
    /\ panicked = {1, 2}
    /\ IsQueryAs(1)
    /\ lastSet[1] = StrHello
    /\ ret = ResponseDecodeB64Code(TextHello)
    /\ 2 \in DOMAIN b64code
    /\ b64code[2] \in Malformed

=============================================================================
